---------------------------- MODULE Spec2Model ----------------------------
(***************************************************************************)
(* DBQuery: the transaction scope of a database handle (DB.__enter__,      *)
(* DB.__exit__, DB.abort_transaction), the connection life cycle of the    *)
(* backends (PostgresDB, SQLiteDB, the dummy handle of the tests), the     *)
(* retry loop of Query.__call__ (specification Spec), and the result       *)
(* shapers of the Query classes (_produce_return, specification            *)
(* ShaperSpec).                                                            *)
(*                                                                         *)
(* One handle is used by one caller.  The handle is the record db, whose   *)
(* fields are the attributes of the Python object.  The caller is a Python *)
(* program: an exception raised by an operation propagates (pending) until *)
(* a with-statement's __exit__ suppresses it or a try/except catches it.   *)
(* last and txn only observe: they record what the caller's latest step    *)
(* did and which hooks the current transaction scope has called.           *)
(*                                                                         *)
(* Specification CallersSpec has two callers that run "with db: ..." at    *)
(* the same time, on one handle or on a handle each, one statement of      *)
(* __enter__ and __exit__ at a time.                                       *)
(***************************************************************************)
EXTENDS Integers, Sequences, FiniteSets, TLC

VARIABLES
  db,       \* the handle: DB.__init__ and the backend's __init__
  pending,  \* the exception propagating in the caller, "None" when there is none
  last,     \* observation: the caller's latest step
  txn,      \* observation: the scope opened by the latest outermost __enter__
  query,    \* the Query object whose _produce_return is applied
  cursor,   \* the DB-API cursor handed to _produce_return
  shaped,   \* what _produce_return and the callback have done so far
  handles,  \* the handles two callers use, statement by statement
  callers,  \* where each of the two callers stands in "with db: ..."
  trace     \* observation: the hooks called on each handle, and whose work
            \* each commit or rollback settled

handle_vars == <<db, pending, last, txn>>
shaper_vars == <<query, cursor, shaped>>
caller_vars == <<handles, callers, trace>>
vars ==
  <<db, pending, last, txn, query, cursor, shaped, handles, callers, trace>>

---------------------------------------------------------------------------
(* Bounds of the model. *)

\* deepest nesting of scopes the caller opens
MaxDepth == 3
\* largest retry budget a handle is constructed with
MaxRetry == 3
\* most rows in a result set
MaxRows == 3
\* largest affected-row count, expected or reported by the cursor
MaxCount == 2
\* largest chunk size a SelectIterator is constructed with
MaxArraySize == 3

---------------------------------------------------------------------------
(* Values. *)

\* Python's None for an attribute that holds a value otherwise: <<>> or <<v>>
None == <<>>
Some(v) == <<v>>
Value(o) == o[1]

\* the abort marker, db.py _DBRollbackException
Marker == "_DBRollbackException"

\* RuntimeError("Connection still exists.") of PostgresDB._connect,
\* RuntimeError('Close connection first.') of SQLiteDB._connect
ConnectionStateError == "RuntimeError: connection still exists"

\* RuntimeError("Connection lost, can not commit!") of PostgresDB._commit,
\* RuntimeError("Connection lost, can not rollback!") of PostgresDB._rollback
ConnectionLostError == "RuntimeError: connection lost"

\* what an operation can raise; "None" is a normal return
Exceptions ==
  {"None", Marker, "DBContextManagerError", ConnectionStateError,
   ConnectionLostError, "NotImplementedError", "OperationalError", "Error",
   "ManipulationCheckError", "UserError"}

\* an error signal that is not the abort marker
Errors == Exceptions \ {"None", Marker}

\* what one execute meets.  driver: cursor.execute runs the statement, or
\* fails with the backend's operational error, or with another error.
\* shaper: what the query's _produce_return, called with the cursor of a
\* statement that ran, raises: nothing, the operational error of a fetch, or
\* the ManipulationCheckError of a Manipulation.
Outcomes ==
  {[driver |-> "ok", shaper |-> s] :
     s \in {"None", "OperationalError", "ManipulationCheckError"}}
  \cup {[driver |-> d, shaper |-> "None"] : d \in {"OperationalError", "Error"}}

\* what connection.close() of the driver does: it returns or it raises
DriverCloses == {"None", "Error"}

\* what the connection's commit() or rollback() does: it returns, or raises
\* an error of the driver
DriverHooks == {"None", "Error"}

\* _RETRY of test_query.py: the retry budget of the tests' dummy handle
DummyRetry == 2

\* PostgresDB, SQLiteDB, and the dummy handle of test_query.py: a subclass of
\* DB that keeps DB.OperationalError, manages no connection and implements
\* no transaction hook
Backends == {"postgres", "sqlite", "dummy"}

\* the result of a handler: the handle after it, what it raised, what it
\* returned (used by __exit__ only), the hooks it called
Ret(h, raised, returns, hooks) ==
  [db |-> h, raised |-> raised, returns |-> returns, hooks |-> hooks]

---------------------------------------------------------------------------
(* The handle. *)

\* DB.__init__(retry), PostgresDB.__init__, SQLiteDB.__init__.  driver_open
\* is not an attribute of the handle: it is the driver's side, the
\* connections opened for this handle on which close() was never called.
NewDB(backend, retry) ==
  [backend |-> backend,
   retry |-> retry,
   orig_retry |-> None,
   transaction_level |-> 0,
   connection |-> None,
   driver_open |-> {}]

\* the handles a program constructs.  SQLiteDB(database) has the budget 0:
\* SQLiteDB.__init__ hands its keywords both to DB.__init__, which accepts
\* retry only, and to sqlite3.connect, which rejects retry, so that a
\* SQLiteDB constructed with a budget never connects.
Handles ==
  {NewDB("postgres", retry) : retry \in 0..MaxRetry}
  \cup {NewDB("sqlite", 0), NewDB("dummy", DummyRetry)}

\* DB.OperationalError = Exception: SQLiteDB and the dummy handle do not
\* override it, so for them every exception is an operational error;
\* PostgresDB sets it to psycopg2's OperationalError.
IsOperational(h, e) ==
  /\ e # "None"
  /\ \/ h.backend # "postgres"
     \/ e = "OperationalError"

\* the identity of the connection the driver opens next: the first that is
\* not the identity of a connection still open
NewConnection(open) ==
  CHOOSE id \in 1..(Cardinality(open) + 1) :
    /\ id \notin open
    /\ \A other \in 1..(id - 1) : other \in open

\* PostgresDB._connect / SQLiteDB._connect: both leave the new connection
\* in autocommit mode
connect(h) ==
  IF h.connection # None
  THEN Ret(h, ConnectionStateError, FALSE, <<>>)
  ELSE LET id == NewConnection(h.driver_open)
       IN  Ret([h EXCEPT !.connection = Some([id |-> id, autocommit |-> TRUE]),
                         !.driver_open = @ \cup {id}],
               "None", FALSE, <<>>)

\* mutant: the decorator connects without looking at the connection
connected_always(h) == connect(h)

\* DB.connected: the decorator's test before the decorated method runs; what
\* _connect raises leaves the decorator
connected(h) ==
  IF h.connection = None THEN connect(h) ELSE Ret(h, "None", FALSE, <<>>)

\* mutant: close() without its try/except
after_driver_close_raises(h, driver_close) ==
  IF driver_close # "None"
  THEN Ret(h, driver_close, FALSE, <<>>)
  ELSE Ret([h EXCEPT !.driver_open = @ \ {Value(h.connection).id},
                     !.connection = None],
           "None", FALSE, <<>>)

\* mutant: close() forgets the connection inside the try block
after_driver_close_keeps(h, driver_close) ==
  IF driver_close # "None"
  THEN Ret([h EXCEPT !.driver_open = @ \ {Value(h.connection).id}],
           "None", FALSE, <<>>)
  ELSE Ret([h EXCEPT !.driver_open = @ \ {Value(h.connection).id},
                     !.connection = None],
           "None", FALSE, <<>>)

\* mutant: close() forgets the connection without calling its close()
after_driver_close_not_called(h, driver_close) ==
  Ret([h EXCEPT !.connection = None], "None", FALSE, <<>>)

\* close() with a connection: connection.close() was called and did
\* driver_close; "except Exception: pass", then the connection is forgotten
after_driver_close(h, driver_close) ==
  Ret([h EXCEPT !.driver_open = @ \ {Value(h.connection).id},
                !.connection = None],
      "None", FALSE, <<>>)

\* mutant: close() leaves the handle as it is
close_keeps_connection(h, driver_close) == Ret(h, "None", FALSE, <<>>)

\* PostgresDB.close / SQLiteDB.close; the dummy handle's close is "pass"
close(h, driver_close) ==
  IF h.backend # "dummy" /\ h.connection # None
  THEN after_driver_close(h, driver_close)
  ELSE Ret(h, "None", FALSE, <<>>)

\* PostgresDB.execute / SQLiteDB.execute (decorated with DB.connected) and
\* the dummy handle's execute, with what the execute meets: cursor.execute
\* raises, or return_function(c) is called and raises or returns
execute(h, outcome) ==
  LET c == IF h.backend = "dummy"
           THEN Ret(h, "None", FALSE, <<>>)
           ELSE connected(h)
  IN  IF c.raised # "None"
      THEN c
      ELSE IF outcome.driver # "ok"
      THEN Ret(c.db, outcome.driver, FALSE, <<>>)
      ELSE Ret(c.db, outcome.shaper, FALSE, <<>>)

\* PostgresDB.show (decorated with DB.connected) asks the connection's
\* cursor to build the statement; SQLiteDB.show and the dummy handle's show
\* format their arguments and touch no connection
show(h) ==
  IF h.backend = "postgres"
  THEN connected(h)
  ELSE Ret(h, "None", FALSE, <<>>)

\* mutant: _begin without the decorator, testing the connection as _commit
\* does
begin_unconnected(h) ==
  IF h.backend # "postgres"
  THEN Ret(h, "NotImplementedError", FALSE, <<"begin">>)
  ELSE IF h.connection = None
  THEN Ret(h, ConnectionLostError, FALSE, <<"begin">>)
  ELSE Ret([h EXCEPT !.connection =
                       Some([Value(@) EXCEPT !.autocommit = FALSE])],
           "None", FALSE, <<"begin">>)

\* PostgresDB._begin (decorated with DB.connected); SQLiteDB inherits
\* DB._begin, which raises NotImplementedError
begin(h) ==
  IF h.backend # "postgres"
  THEN Ret(h, "NotImplementedError", FALSE, <<"begin">>)
  ELSE LET c == connected(h)
       IN  IF c.raised # "None"
           THEN Ret(c.db, c.raised, FALSE, <<"begin">>)
           ELSE Ret([c.db EXCEPT !.connection =
                                   Some([Value(@) EXCEPT !.autocommit = FALSE])],
                    "None", FALSE, <<"begin">>)

\* PostgresDB._commit; DB._commit for SQLiteDB.  driver_hook is what the
\* connection's commit() does: when it raises, the autocommit mode is not
\* set back
commit(h, driver_hook) ==
  IF h.backend # "postgres"
  THEN Ret(h, "NotImplementedError", FALSE, <<"commit">>)
  ELSE IF h.connection = None
  THEN Ret(h, ConnectionLostError, FALSE, <<"commit">>)
  ELSE IF driver_hook # "None"
  THEN Ret(h, driver_hook, FALSE, <<"commit">>)
  ELSE Ret([h EXCEPT !.connection =
                       Some([Value(@) EXCEPT !.autocommit = TRUE])],
           "None", FALSE, <<"commit">>)

\* mutant: _rollback decorated with DB.connected, as _begin is
rollback_connected(h, driver_hook) ==
  LET c == connected(h)
  IN  Ret([c.db EXCEPT !.connection =
                         Some([Value(@) EXCEPT !.autocommit = TRUE])],
          "None", FALSE, <<"rollback">>)

\* PostgresDB._rollback; DB._rollback for SQLiteDB.  driver_hook is what
\* the connection's rollback() does
rollback(h, driver_hook) ==
  IF h.backend # "postgres"
  THEN Ret(h, "NotImplementedError", FALSE, <<"rollback">>)
  ELSE IF h.connection = None
  THEN Ret(h, ConnectionLostError, FALSE, <<"rollback">>)
  ELSE IF driver_hook # "None"
  THEN Ret(h, driver_hook, FALSE, <<"rollback">>)
  ELSE Ret([h EXCEPT !.connection =
                       Some([Value(@) EXCEPT !.autocommit = TRUE])],
           "None", FALSE, <<"rollback">>)

---------------------------------------------------------------------------
(* The transaction scope. *)

\* mutant: __enter__ without its test of the level
is_outermost_enter_always(h) == TRUE

\* mutant: the first nested scope starts the transaction again
is_outermost_enter_or_first_nested(h) == h.transaction_level <= 1

\* __enter__, "if self._transaction_level == 0": the scope that starts the
\* transaction
is_outermost_enter(h) == h.transaction_level = 0

\* mutant: __enter__ saves the retry budget and forgets to set it to 0
save_retry_keeps(h) ==
  [h EXCEPT !.orig_retry = Some(h.retry)]

\* __enter__ on the first level, after _begin returned: the retry budget is
\* saved and set to 0
save_retry(h) ==
  [h EXCEPT !.orig_retry = Some(h.retry), !.retry = 0]

\* mutant: __enter__ counts the new scope before it calls _begin
enter_counts_first(h) ==
  IF is_outermost_enter(h)
  THEN LET b == begin(h)
       IN  IF b.raised # "None"
           THEN Ret([b.db EXCEPT !.transaction_level = @ + 1],
                    b.raised, FALSE, b.hooks)
           ELSE Ret([save_retry(b.db) EXCEPT !.transaction_level = @ + 1],
                    "None", FALSE, b.hooks)
  ELSE Ret([h EXCEPT !.transaction_level = @ + 1], "None", FALSE, <<>>)

\* DB.__enter__
enter(h) ==
  IF is_outermost_enter(h)
  THEN LET b == begin(h)
       IN  IF b.raised # "None"
           THEN b
           ELSE Ret([save_retry(b.db) EXCEPT !.transaction_level = @ + 1],
                    "None", FALSE, b.hooks)
  ELSE Ret([h EXCEPT !.transaction_level = @ + 1], "None", FALSE, <<>>)

\* mutant: __exit__ raises below level 0 and leaves the level as it is
unbalanced_no_reset(h1) ==
  Ret(h1, "DBContextManagerError", FALSE, <<>>)

\* mutant: __exit__ sets the level back to 0 and returns without raising
unbalanced_silent(h1) ==
  Ret([h1 EXCEPT !.transaction_level = 0], "None", FALSE, <<>>)

\* __exit__ below level 0: the level is set back to 0 and
\* DBContextManagerError raised
unbalanced(h1) ==
  Ret([h1 EXCEPT !.transaction_level = 0],
      "DBContextManagerError", FALSE, <<>>)

\* mutant: every __exit__ suppresses the abort marker
suppress_marker_at_every_level(transaction_level, exc_value) ==
  \/ exc_value = "None"
  \/ exc_value = Marker

\* mutant: the outermost __exit__ suppresses whatever it was given
suppress_outermost(transaction_level, exc_value) ==
  \/ exc_value = "None"
  \/ transaction_level = 0

\* mutant: __exit__ never suppresses the abort marker
suppress_nothing(transaction_level, exc_value) ==
  exc_value = "None"

\* __exit__'s return value: TRUE when the with-statement must suppress
\* exc_value
suppress(transaction_level, exc_value) ==
  \/ exc_value = "None"
  \/ /\ transaction_level = 0
     /\ exc_value = Marker

\* mutant: the outermost __exit__ rolls back for errors only and commits
\* when it is given the abort marker
exit_commits_on_marker(h, exc_value, driver_hook) ==
  LET h1 == [h EXCEPT !.transaction_level = @ - 1]
  IN  IF h1.transaction_level < 0
      THEN unbalanced(h1)
      ELSE IF h1.transaction_level = 0
      THEN LET r == IF exc_value \in Errors
                    THEN rollback(h1, driver_hook)
                    ELSE commit(h1, driver_hook)
           IN  IF r.raised # "None"
               THEN r
               ELSE Ret([r.db EXCEPT !.retry = Value(r.db.orig_retry),
                                     !.orig_retry = None],
                        "None",
                        suppress(r.db.transaction_level, exc_value),
                        r.hooks)
      ELSE Ret(h1, "None", suppress(h1.transaction_level, exc_value), <<>>)

\* mutant: __exit__ gives the level back when _rollback or _commit raises
exit_keeps_level_on_error(h, exc_value, driver_hook) ==
  LET h1 == [h EXCEPT !.transaction_level = @ - 1]
  IN  IF h1.transaction_level < 0
      THEN unbalanced(h1)
      ELSE IF h1.transaction_level = 0
      THEN LET r == IF exc_value # "None"
                    THEN rollback(h1, driver_hook)
                    ELSE commit(h1, driver_hook)
           IN  IF r.raised # "None"
               THEN Ret([r.db EXCEPT !.transaction_level = @ + 1],
                        r.raised, FALSE, r.hooks)
               ELSE Ret([r.db EXCEPT !.retry = Value(r.db.orig_retry),
                                     !.orig_retry = None],
                        "None",
                        suppress(r.db.transaction_level, exc_value),
                        r.hooks)
      ELSE Ret(h1, "None", suppress(h1.transaction_level, exc_value), <<>>)

\* DB.__exit__(exc_type, exc_value, traceback).  When _rollback or _commit
\* raises, the statements after it are not reached.
exit(h, exc_value, driver_hook) ==
  LET h1 == [h EXCEPT !.transaction_level = @ - 1]
  IN  IF h1.transaction_level < 0
      THEN unbalanced(h1)
      ELSE IF h1.transaction_level = 0
      THEN LET r == IF exc_value # "None"
                    THEN rollback(h1, driver_hook)
                    ELSE commit(h1, driver_hook)
           IN  IF r.raised # "None"
               THEN r
               ELSE Ret([r.db EXCEPT !.retry = Value(r.db.orig_retry),
                                     !.orig_retry = None],
                        "None",
                        suppress(r.db.transaction_level, exc_value),
                        r.hooks)
      ELSE Ret(h1, "None", suppress(h1.transaction_level, exc_value), <<>>)

\* the __exit__ of h gets as far as the connection's commit() or rollback()
ReachesDriver(h) ==
  /\ h.backend = "postgres"
  /\ h.transaction_level = 1
  /\ h.connection # None

\* mutant: abort_transaction tests the level with < in place of <=
abort_transaction_below(h) ==
  IF h.transaction_level < 0
  THEN Ret(h, "DBContextManagerError", FALSE, <<>>)
  ELSE Ret(h, Marker, FALSE, <<>>)

\* DB.abort_transaction
abort_transaction(h) ==
  IF h.transaction_level <= 0
  THEN Ret(h, "DBContextManagerError", FALSE, <<>>)
  ELSE Ret(h, Marker, FALSE, <<>>)

---------------------------------------------------------------------------
(* Query.__call__: the retry loop. *)

\* mutant: the loop goes on for two attempts more than the budget
may_retry_twice_more(retry_count, retry) == retry_count < retry + 2

\* mutant: the budget counts retries, not attempts
may_retry_once_more(retry_count, retry) == retry_count <= retry

\* mutant: the loop gives up one attempt early
may_retry_one_less(retry_count, retry) == retry_count + 1 < retry

\* the test that decides between a retry and the final raise
may_retry(retry_count, retry) == retry_count < retry

\* what a step that is not a Query call leaves in the observation of the
\* retry loop
Quiet ==
  [results |-> <<>>, closes |-> 0, connects |-> 0, shaped |-> 0,
   driver_close |-> "None", driver_hook |-> "None"]

\* One pass of the loop "while 1" with retry_count, and the passes after
\* it: the set of the ways the call can end, one for each outcome the
\* execute of each pass can meet.  results is what each attempt made raised
\* ("None": it returned), closes the calls of db.close(), connects the
\* connections opened, shaped the calls of _produce_return.  The driver's
\* close is taken to return here: close() does the same when it raises.
RECURSIVE attempt(_, _, _)
attempt(h, retry_count, seen) ==
  UNION {
    LET e == execute(h, outcome)
        now == [seen EXCEPT
                  !.results = Append(@, e.raised),
                  !.connects = @ + (IF e.db.connection # h.connection
                                    THEN 1 ELSE 0),
                  !.shaped = @ + (IF outcome.driver = "ok" THEN 1 ELSE 0)]
    IN  IF e.raised = "None"
        THEN {[db |-> e.db, raised |-> "None"] @@ now}
        ELSE IF IsOperational(e.db, e.raised)
                /\ may_retry(retry_count, e.db.retry)
        THEN attempt(close(e.db, "None").db, retry_count + 1,
                     [now EXCEPT !.closes = @ + 1])
        ELSE {[db |-> e.db, raised |-> e.raised] @@ now}
    : outcome \in Outcomes }

\* mutant: the attempts of a call are counted from 2
call_counts_from_two(h) == attempt(h, 2, Quiet)

\* Query.__call__: "retry_count = 1", local to the call, then the loop
call(h) == attempt(h, 1, Quiet)

---------------------------------------------------------------------------
(* The result shapers: values. *)

\* column values
Values == {"a", "b"}

\* the numbers of columns of a result set
Widths == {1, 2}

\* the result sets: up to MaxRows rows of the same width
ResultSets ==
  UNION {[1..n -> [1..w -> Values]] : n \in 0..MaxRows, w \in Widths}

\* the value of a column that is NULL: the driver hands it over as None
Null == "NULL"

\* the result sets whose columns are all NULL
NullResultSets ==
  UNION {[1..n -> [1..w -> {Null}]] : n \in 0..MaxRows, w \in Widths}

\* a Python value a shaper returns or yields: None, a row, the value of a
\* row's single column (None when the column is NULL), or what a row
\* formatter made of a row
PyNone == [kind |-> "None", of |-> <<>>]
PyRow(row) == [kind |-> "row", of |-> row]
PyColumn(row) ==
  IF row[1] = Null THEN PyNone ELSE [kind |-> "column", of |-> <<row[1]>>]
PyFormatted(row) == [kind |-> "formatted", of |-> row]

\* row_formatter: None, or a function of (row, cursor)
Formatters == {"None", "row_formatter"}

\* RuntimeError("No DB-API cursor or description available.") of
\* to_dict_formatter
MissingMetadataError == "RuntimeError: no cursor or description"

\* the list cursor.fetchall() returned (its rows are shaped.results), and
\* the generator expression over that list
PyList == [kind |-> "list", of |-> <<>>]
PyGenerator == [kind |-> "generator", of |-> <<>>]

\* DB-API cursor.fetchall(): all the rows not fetched yet
fetchall(c) ==
  LET rowset == SubSeq(c.rows, c.position + 1, Len(c.rows))
  IN  [rowset |-> rowset,
       cursor |-> [c EXCEPT !.position = Len(c.rows),
                            !.fetches = Append(@, Len(rowset))]]

\* the cursor after cursor.execute: its result set, its rowcount, the rows
\* fetched so far, the size of the rowset each fetch returned, the calls
\* of cursor.close() and cursor.description: None, or the names (d[0]) of
\* the columns
NewCursor(rows, rowcount) ==
  [rows |-> rows, rowcount |-> rowcount, position |-> 0, fetches |-> <<>>,
   closes |-> 0, description |-> None]

\* DB-API cursor.fetchmany(size): the next rows, at most size of them
fetchmany(c, size) ==
  LET upto == IF c.position + size > Len(c.rows)
              THEN Len(c.rows)
              ELSE c.position + size
      rowset == SubSeq(c.rows, c.position + 1, upto)
  IN  [rowset |-> rowset,
       cursor |-> [c EXCEPT !.position = @ + Len(rowset),
                            !.fetches = Append(@, Len(rowset))]]

\* Query.__init__ and the __init__ of its subclasses: the attributes of a
\* query object
NewQuery(kind, rowcount, row_formatter, arraysize, cb_args) ==
  [kind |-> kind, rowcount |-> rowcount, row_formatter |-> row_formatter,
   arraysize |-> arraysize, cb_args |-> cb_args]

NoQuery == NewQuery("Query", None, "None", 1, <<>>)

\* shaped before _produce_return is called.  generator is the frame of
\* _row_generator: where it stands and the rows of its rowset not yet
\* yielded.
NotShaped ==
  [state |-> "new", raised |-> "None", value |-> PyNone, count |-> None,
   carried |-> <<>>, calls |-> <<>>, yielded |-> <<>>,
   generator |-> [at |-> "start", rowset |-> <<>>],
   executes |-> 0, body |-> "None", cursor_close |-> "None", warnings |-> 0,
   results |-> <<>>, formatted |-> <<>>, called |-> None, shown |-> None,
   dicts |-> <<>>]

---------------------------------------------------------------------------
(* Manipulation. *)

\* Manipulation.__init__(db, sql, rowcount)
Manipulation(rowcount) == NewQuery("Manipulation", rowcount, "None", 1, <<>>)

\* mutant: the expected count is tested for truth, so that 0 is no check
checks_count_if_true(rowcount) == rowcount # None /\ Value(rowcount) # 0

\* "self._rowcount is not None": a check was asked for
checks_count(rowcount) == rowcount # None

\* Manipulation._produce_return(cursor): what it raises, the count it
\* returns, and the counts the error's message carries
Manipulation_produce_return(q, c) ==
  IF checks_count(q.rowcount) /\ Value(q.rowcount) # c.rowcount
  THEN [raised |-> "ManipulationCheckError", count |-> None,
        carried |-> <<c.rowcount, Value(q.rowcount)>>]
  ELSE [raised |-> "None", count |-> Some(c.rowcount), carried |-> <<>>]

---------------------------------------------------------------------------
(* Query: the parameters of a call. *)

\* the names of the named arguments
Names == {"x", "y"}

\* *args, a tuple, and **kwds, a dict: a tuple and a dict are never equal
\* in Python, not even when both are empty
PyTuple(values) == [kind |-> "tuple", names |-> <<>>, of |-> values]
PyDict(names, values) == [kind |-> "dict", names |-> names, of |-> values]

\* the positional arguments of a call: up to two values
ArgLists == {PyTuple(values) : values \in UNION {[1..n -> Values] : n \in 0..2}}

\* the named arguments of a call: values for some of the names
KwdMaps ==
  {PyDict(names, values) :
     <<names, values>> \in
       UNION {{ns} \X [1..Len(ns) -> Values] :
                ns \in {<<>>, <<"x">>, <<"y">>, <<"x", "y">>}}}

\* Query.__init__(db, sql)
Query == NewQuery("Query", None, "None", 1, <<>>)

\* mutant: the named arguments win over the positional ones
select_params_named_first(args, kwds) ==
  IF Len(kwds.names) > 0 THEN kwds ELSE args

\* "params = args; if not params: params = kwds", in __call__ and in show
select_params(args, kwds) ==
  IF Len(args.of) > 0 THEN args ELSE kwds

\* what the execute function of a call, or db.show, was given
Passed(args, kwds) ==
  [args |-> args, kwds |-> kwds, params |-> select_params(args, kwds)]

---------------------------------------------------------------------------
(* to_dict_formatter. *)

\* the column names a cursor can report
ColumnNames == {"test", "Test"}

\* str.lower() on the column names
Lower(name) == IF name = "Test" THEN "test" ELSE name

\* zip(row, column_names) stops at the shorter of the two
Zipped(row, names) ==
  1..(IF Len(row) < Len(names) THEN Len(row) ELSE Len(names))

\* {name: value for value, name in zip(row, column_names)}: a dict, as the
\* set of its (key, value) pairs; a key met again keeps the later value
DictOf(row, names) ==
  {<<names[i], row[i]>> : i \in
     {j \in Zipped(row, names) :
        \A k \in Zipped(row, names) : names[k] = names[j] => k <= j}}

\* what to_dict_formatter returns: the row it was given, or a dict
Formatted(kind, row, pairs) ==
  [raised |-> "None", kind |-> kind, row |-> row, pairs |-> pairs]

\* mutant: the metadata is asked for before the row is looked at
to_dict_formatter_metadata_first(row, c) ==
  IF c = None \/ Value(c).description = None
  THEN [raised |-> MissingMetadataError, kind |-> "None", row |-> <<>>,
        pairs |-> {}]
  ELSE IF row = <<>>
  THEN Formatted("row", row, {})
  ELSE Formatted("dict", <<>>, DictOf(row, Value(Value(c).description)))

\* to_dict_formatter(row, cursor); cursor is None or a cursor
to_dict_formatter(row, c) ==
  IF row = <<>>
  THEN Formatted("row", row, {})
  ELSE IF c = None \/ Value(c).description = None
  THEN [raised |-> MissingMetadataError, kind |-> "None", row |-> <<>>,
        pairs |-> {}]
  ELSE Formatted("dict", <<>>, DictOf(row, Value(Value(c).description)))

\* the result sets given to to_dict_formatter: those of the other shapers
\* and a result of one empty row
DictResultSets == ResultSets \cup {<< <<>> >>}

\* the descriptions a cursor with these rows can have: None, or one name
\* for each column
Descriptions(rows) ==
  {None} \cup {Some(names) :
                names \in [1..(IF rows = <<>> THEN 1 ELSE Len(rows[1]))
                            -> ColumnNames]}

---------------------------------------------------------------------------
(* Select. *)

\* Select.__init__(db, sql, row_formatter)
Select(row_formatter) == NewQuery("Select", None, row_formatter, 1, <<>>)

\* mutant: the rows are formatted in a list comprehension, during the call
Select_produce_return_eager(q, c) ==
  LET f == fetchall(c)
  IN  [cursor |-> f.cursor,
       value |-> PyList,
       results |-> f.rowset,
       formatted |-> IF q.row_formatter # "None" THEN f.rowset ELSE <<>>,
       generator |-> [at |-> "end", rowset |-> <<>>]]

\* Select._produce_return(cursor): fetchall, then the list itself or a
\* generator expression over it, of which nothing has run yet
Select_produce_return(q, c) ==
  LET f == fetchall(c)
  IN  [cursor |-> f.cursor,
       value |-> IF q.row_formatter # "None" THEN PyGenerator ELSE PyList,
       results |-> f.rowset,
       formatted |-> <<>>,
       generator |-> IF q.row_formatter # "None"
                     THEN [at |-> "start", rowset |-> f.rowset]
                     ELSE [at |-> "end", rowset |-> <<>>]]

\* next() on the generator expression "(self._row_formatter(r, cursor) for
\* r in results)": the formatter is called with the next row and its result
\* yielded (PyFormatted stands for it, and dicts holds what to_dict_formatter
\* returned); when the formatter raises (fails, for a formatter of the
\* caller), the exception leaves next() and the generator is finished; a
\* finished generator yields nothing
Select_next(q, c, g, fails) ==
  IF g.at = "end" \/ g.rowset = <<>>
  THEN [generator |-> [at |-> "end", rowset |-> <<>>],
        formatted |-> <<>>, yielded |-> <<>>, dicts |-> <<>>,
        raised |-> "None"]
  ELSE LET dict == to_dict_formatter(Head(g.rowset), Some(c))
           dicts == IF q.row_formatter = "to_dict_formatter"
                    THEN <<dict>> ELSE <<>>
           raises == IF q.row_formatter = "to_dict_formatter"
                     THEN dict.raised # "None" ELSE fails
       IN  IF raises
           THEN [generator |-> [at |-> "end", rowset |-> <<>>],
                 formatted |-> <<Head(g.rowset)>>, yielded |-> <<>>,
                 dicts |-> dicts, raised |-> MissingMetadataError]
           ELSE [generator |-> [at |-> "yield", rowset |-> Tail(g.rowset)],
                 formatted |-> <<Head(g.rowset)>>,
                 yielded |-> <<PyFormatted(Head(g.rowset))>>,
                 dicts |-> dicts, raised |-> "None"]

---------------------------------------------------------------------------
(* SelectOne. *)

\* Select.__init__(db, sql, row_formatter), inherited by SelectOne
SelectOne(row_formatter) == NewQuery("SelectOne", None, row_formatter, 1, <<>>)

\* the formatters given to SelectOne: also a function that returns nothing
SelectOneFormatters == Formatters \cup {"returns_none"}

\* self._row_formatter(row, cursor) in SelectOne
formatter_returns(q, row) ==
  IF q.row_formatter = "returns_none" THEN PyNone ELSE PyFormatted(row)

\* mutant: SelectOne takes the first row of whatever it fetched
is_one_row_or_more(results) == Len(results) >= 1

\* "len(results) != 1" negated: exactly one row was fetched
is_one_row(results) == Len(results) = 1

\* mutant: SelectOne returns the row as it is, also when it has one column
SelectOne_produce_return_row(q, c) ==
  LET f == fetchmany(c, 2)
      results == f.rowset
      row == results[1]
  IN  [cursor |-> f.cursor,
       value |-> IF ~is_one_row(results) THEN PyNone
                 ELSE IF q.row_formatter # "None" THEN formatter_returns(q, row)
                 ELSE PyRow(row)]

\* SelectOne._produce_return(cursor): the value returned and the cursor
\* after the fetch
SelectOne_produce_return(q, c) ==
  LET f == fetchmany(c, 2)
      results == f.rowset
      row == results[1]
  IN  [cursor |-> f.cursor,
       value |-> IF ~is_one_row(results) THEN PyNone
                 ELSE IF q.row_formatter # "None" THEN formatter_returns(q, row)
                 ELSE IF Len(row) = 1 THEN PyColumn(row)
                 ELSE PyRow(row)]

---------------------------------------------------------------------------
(* SelectIterator. *)

\* mutant: the chunk size is taken as given when one is given
arraysize_as_given(arraysize) ==
  IF arraysize # None THEN Value(arraysize) ELSE 1

\* SelectIterator.__init__: "if arraysize is not None and arraysize > 0"
arraysize_or_default(arraysize) ==
  IF arraysize # None /\ Value(arraysize) > 0 THEN Value(arraysize) ELSE 1

\* SelectIterator.__init__(db, sql, callback, cb_args, arraysize,
\* row_formatter); "cb_args or []"
SelectIterator(cb_args, arraysize, row_formatter) ==
  NewQuery("SelectIterator", None, row_formatter,
           arraysize_or_default(arraysize),
           IF cb_args = None THEN <<>> ELSE Value(cb_args))

\* what the generator yields for a row
yield(q, row) ==
  IF q.row_formatter # "None" THEN PyFormatted(row) ELSE PyRow(row)

\* SelectIterator._row_generator resumed by next(): it runs to its next
\* yield or to its end.  With rows of the rowset left the for loop yields
\* the next one; otherwise fetchmany is called, and "while rowset" ends the
\* generator when the rowset is empty.
row_generator(q, c, g) ==
  IF g.rowset # <<>>
  THEN [cursor |-> c,
        generator |-> [at |-> "yield", rowset |-> Tail(g.rowset)],
        yielded |-> <<yield(q, Head(g.rowset))>>]
  ELSE LET f == fetchmany(c, q.arraysize)
       IN  IF f.rowset = <<>>
           THEN [cursor |-> f.cursor,
                 generator |-> [at |-> "end", rowset |-> <<>>],
                 yielded |-> <<>>]
           ELSE [cursor |-> f.cursor,
                 generator |-> [at |-> "yield", rowset |-> Tail(f.rowset)],
                 yielded |-> <<yield(q, Head(f.rowset))>>]

---------------------------------------------------------------------------
(* Two callers: the statements of __enter__ and __exit__, one at a time. *)

\* the two callers, and the handles they may use
Callers == {1, 2}

\* which handle each caller uses: the same one, or one each
Layouts == {[c \in Callers |-> 1], [c \in Callers |-> c]}

\* a caller before its with-statement: pc is the statement it runs next,
\* exc_value what its block raised
NewCaller(handle) == [pc |-> "enter", handle |-> handle, exc_value |-> "None"]

\* the variables of the callers where no callers run
NoHandles == [i \in Callers |-> NewDB("postgres", 0)]
NoCallers == [c \in Callers |-> NewCaller(c)]
NoTrace ==
  [calls |-> [i \in Callers |-> <<>>], work |-> [i \in Callers |-> {}],
   settled |-> {}, budget |-> 0]

\* __enter__: "self._orig_retry = self._retry"
enter_save(h) == [h EXCEPT !.orig_retry = Some(h.retry)]

\* __enter__: "self._retry = 0"
enter_zero(h) == [h EXCEPT !.retry = 0]

\* __enter__: "self._transaction_level += 1"
enter_count(h) == [h EXCEPT !.transaction_level = @ + 1]

\* __exit__: "self._transaction_level -= 1"
exit_decrement(h) == [h EXCEPT !.transaction_level = @ - 1]

\* mutant: the restore sets the budget to 0
exit_restore_zero(h) == [h EXCEPT !.retry = 0]

\* the budget of a handle whose _retry is None: what the restore leaves
\* when another __exit__ has cleared _orig_retry before it
NoRetry == -1

\* __exit__: "self._retry = self._orig_retry"; a cleared _orig_retry is put
\* back as it is
exit_restore(h) ==
  [h EXCEPT !.retry =
     IF h.orig_retry = None THEN NoRetry ELSE Value(h.orig_retry)]

\* __exit__: "self._orig_retry = None"
exit_clear(h) == [h EXCEPT !.orig_retry = None]

---------------------------------------------------------------------------
(* Observation. *)

\* what an operation leaves in last; earlier tells that a Query call made
\* before this operation raised
Seen(op, r, loop) ==
  [op |-> op, pre |-> db, sig |-> pending, raised |-> r.raised,
   returns |-> r.returns, hooks |-> r.hooks,
   earlier |-> last.earlier \/ (last.op = "call" /\ last.raised # "None")]
  @@ loop

NoTxn ==
  [hooks |-> <<>>, enters |-> 0, exits |-> 0, nested |-> TRUE,
   sigs |-> {}, budget |-> 0]

\* last before the caller's first step
NoStep(h) ==
  [op |-> "init", pre |-> h, sig |-> "None", raised |-> "None",
   returns |-> FALSE, hooks |-> <<>>, earlier |-> FALSE] @@ Quiet

---------------------------------------------------------------------------
(* The state after construction, and the caller's operations. *)

Init ==
  /\ db \in Handles
  /\ pending = "None"
  /\ last = NoStep(db)
  /\ txn = NoTxn
  /\ query = NoQuery
  /\ cursor = NewCursor(<<>>, 0)
  /\ shaped = NotShaped
  /\ handles = NoHandles
  /\ callers = NoCallers
  /\ trace = NoTrace

\* with db: ... reaches __enter__
Enter ==
  /\ pending = "None"
  /\ db.transaction_level < MaxDepth
  /\ UNCHANGED <<shaper_vars, caller_vars>>
  /\ LET r == enter(db)
         ok == IF r.raised = "None" THEN 1 ELSE 0
     IN  /\ db' = r.db
         /\ pending' = r.raised
         /\ last' = Seen("enter", r, Quiet)
         /\ txn' = IF db.transaction_level = 0
                   THEN [hooks |-> r.hooks, enters |-> ok, exits |-> 0,
                         nested |-> TRUE, sigs |-> {}, budget |-> db.retry]
                   ELSE IF txn.nested /\ txn.exits = 0
                   THEN [txn EXCEPT !.hooks = @ \o r.hooks,
                                    !.enters = @ + ok]
                   ELSE [txn EXCEPT !.hooks = @ \o r.hooks,
                                    !.nested = FALSE,
                                    !.enters = 0, !.exits = 0, !.sigs = {}]

\* the end of a with-block, or a direct call of __exit__: it is handed the
\* exception that is propagating, if any
Exit ==
  \E driver_hook \in DriverHooks :
    LET r == exit(db, pending, driver_hook)
    IN  /\ driver_hook # "None" => ReachesDriver(db)
        /\ UNCHANGED <<shaper_vars, caller_vars>>
        /\ db' = r.db
        /\ pending' = IF r.raised # "None" THEN r.raised
                      ELSE IF r.returns THEN "None"
                      ELSE pending
        /\ last' = Seen("exit", r, [Quiet EXCEPT !.driver_hook = driver_hook])
        /\ txn' = IF db.transaction_level = 0
                  THEN [txn EXCEPT !.hooks = @ \o r.hooks]
                  ELSE IF txn.nested
                  THEN [txn EXCEPT !.hooks = @ \o r.hooks,
                                   !.exits = @ + 1,
                                   !.sigs = @ \cup {pending}]
                  ELSE [txn EXCEPT !.hooks = @ \o r.hooks]

\* db.abort_transaction()
Abort ==
  /\ pending = "None"
  /\ LET r == abort_transaction(db)
     IN  /\ db' = r.db
         /\ pending' = r.raised
         /\ last' = Seen("abort_transaction", r, Quiet)
         /\ UNCHANGED <<txn, shaper_vars, caller_vars>>

\* a Query (Select, Manipulation, ...) bound to the handle is called
Call ==
  /\ pending = "None"
  /\ \E c \in call(db) :
       /\ db' = c.db
       /\ pending' = c.raised
       /\ last' = Seen("call", Ret(c.db, c.raised, FALSE, <<>>),
                       [k \in DOMAIN Quiet |-> c[k]])
       /\ UNCHANGED <<txn, shaper_vars, caller_vars>>

\* db.close(), with what the driver's connection.close() does
Close ==
  /\ pending = "None"
  /\ \E driver_close \in DriverCloses :
       LET r == close(db, driver_close)
       IN  /\ db' = r.db
           /\ pending' = r.raised
           /\ last' = Seen("close", r,
                           [Quiet EXCEPT !.driver_close = driver_close])
           /\ UNCHANGED <<txn, shaper_vars, caller_vars>>

\* db._connect() called directly, as the tests of the backends do; the dummy
\* handle has no _connect
Connect ==
  /\ pending = "None"
  /\ db.backend # "dummy"
  /\ LET r == connect(db)
     IN  /\ db' = r.db
         /\ pending' = r.raised
         /\ last' = Seen("connect", r, Quiet)
         /\ UNCHANGED <<txn, shaper_vars, caller_vars>>

\* db.show(sql, params), or Query.show
Show ==
  /\ pending = "None"
  /\ LET r == show(db)
     IN  /\ db' = r.db
         /\ pending' = r.raised
         /\ last' = Seen("show", r, Quiet)
         /\ UNCHANGED <<txn, shaper_vars, caller_vars>>

\* the caller's own code raises inside or outside a scope
Raise ==
  /\ pending = "None"
  /\ pending' = "UserError"
  /\ last' = Seen("raise", Ret(db, "UserError", FALSE, <<>>), Quiet)
  /\ UNCHANGED <<db, txn, shaper_vars, caller_vars>>

\* a try/except of the caller catches the propagating exception
Catch ==
  /\ pending # "None"
  /\ pending' = "None"
  /\ last' = Seen("catch", Ret(db, "None", FALSE, <<>>), Quiet)
  /\ UNCHANGED <<db, txn, shaper_vars, caller_vars>>

Next ==
  \/ Enter
  \/ Exit
  \/ Abort
  \/ Call
  \/ Close
  \/ Connect
  \/ Show
  \/ Raise
  \/ Catch

Spec == Init /\ [][Next]_vars

---------------------------------------------------------------------------
(* QueryCursor. *)

\* QueryCursor.__init__(db, sql)
QueryCursor == NewQuery("QueryCursor", None, "None", 1, <<>>)

\* db.nonclosing_execute(sql, params, produce_return), which QueryCursor
\* takes as its execute function: the statement runs and its cursor is
\* returned still open, or the error of the driver is raised
nonclosing_execute(outcome) ==
  [raised |-> IF outcome.driver = "ok" THEN "None" ELSE outcome.driver,
   hands_cursor |-> outcome.driver = "ok"]

\* mutant: the cursor is closed after the yield, without try/finally
closes_cursor_on_return(body) == body = "None"

\* QueryCursor.__call__, "finally": cursor.close() is called however the
\* caller's block was left
closes_cursor(body) == TRUE

\* QueryCursor.__call__ after the yield: the caller's block was left with
\* body ("None": it completed), cursor.close() does cursor_close; "except
\* Exception" logs a warning and body propagates
after_yield(c, body, cursor_close) ==
  [cursor |-> IF closes_cursor(body) THEN [c EXCEPT !.closes = @ + 1] ELSE c,
   raised |-> body,
   warnings |-> IF closes_cursor(body) /\ cursor_close # "None"
                THEN 1 ELSE 0]

---------------------------------------------------------------------------
(* The shapers applied: execute calls return_function(c), which is the
   query's _produce_return, with the cursor of a statement that ran. *)

\* the query objects and, for each, the cursors its statement can leave
Shapings ==
  {<<Manipulation(rowcount), NewCursor(<<>>, actual)>> :
     rowcount \in {None} \cup {Some(e) : e \in 0..MaxCount},
     actual \in -1..MaxCount}
  \cup {<<SelectOne(row_formatter), NewCursor(rows, Len(rows))>> :
          row_formatter \in SelectOneFormatters,
          rows \in ResultSets \cup NullResultSets}
  \cup {<<SelectIterator(cb_args, arraysize, row_formatter),
          NewCursor(rows, Len(rows))>> :
          cb_args \in {None, Some(<<"cb_arg">>)},
          arraysize \in {None} \cup {Some(n) : n \in -1..MaxArraySize},
          row_formatter \in Formatters,
          rows \in ResultSets}
  \cup {<<QueryCursor, NewCursor(rows, Len(rows))>> : rows \in ResultSets}
  \cup {<<Query, NewCursor(<<>>, 0)>>}
  \cup {<<Select(row_formatter), NewCursor(rows, Len(rows))>> :
          row_formatter \in Formatters, rows \in ResultSets}
  \cup UNION {{<<Select("to_dict_formatter"),
                 [NewCursor(rows, Len(rows)) EXCEPT !.description = d]>> :
                 d \in Descriptions(rows)} : rows \in DictResultSets}

ShaperInit ==
  /\ db = NewDB("dummy", DummyRetry)
  /\ pending = "None"
  /\ last = NoStep(db)
  /\ txn = NoTxn
  /\ \E s \in Shapings :
       /\ query = s[1]
       /\ cursor = s[2]
  /\ shaped = NotShaped
  /\ handles = NoHandles
  /\ callers = NoCallers
  /\ trace = NoTrace

\* Manipulation._produce_return(cursor) is called and returns or raises
ManipulationReturn ==
  /\ query.kind = "Manipulation"
  /\ shaped.state = "new"
  /\ LET r == Manipulation_produce_return(query, cursor)
     IN  shaped' = [shaped EXCEPT
                      !.state = IF r.raised # "None" THEN "raised"
                                ELSE "returned",
                      !.raised = r.raised,
                      !.count = r.count,
                      !.carried = r.carried]
  /\ UNCHANGED <<query, cursor>>
  /\ UNCHANGED <<handle_vars, caller_vars>>

\* SelectOne._produce_return(cursor) is called and returns
SelectOneReturn ==
  /\ query.kind = "SelectOne"
  /\ shaped.state = "new"
  /\ LET r == SelectOne_produce_return(query, cursor)
     IN  /\ cursor' = r.cursor
         /\ shaped' = [shaped EXCEPT !.state = "returned",
                                     !.value = r.value]
  /\ UNCHANGED query
  /\ UNCHANGED <<handle_vars, caller_vars>>

\* SelectIterator._produce_return(cursor) calls
\* self.callback(self._row_generator(cursor), *self.cb_args)
IteratorCall ==
  /\ query.kind = "SelectIterator"
  /\ shaped.state = "new"
  /\ shaped' = [shaped EXCEPT
                  !.state = "callback",
                  !.calls = Append(@, <<"row_generator">> \o query.cb_args)]
  /\ UNCHANGED <<query, cursor>>
  /\ UNCHANGED <<handle_vars, caller_vars>>

\* the callback asks the generator for its next row
IteratorNext ==
  /\ shaped.state = "callback"
  /\ shaped.generator.at # "end"
  /\ LET r == row_generator(query, cursor, shaped.generator)
     IN  /\ cursor' = r.cursor
         /\ shaped' = [shaped EXCEPT !.generator = r.generator,
                                     !.yielded = @ \o r.yielded]
  /\ UNCHANGED query
  /\ UNCHANGED <<handle_vars, caller_vars>>

\* the callback returns, having consumed the generator or not, and
\* _produce_return returns None
IteratorReturn ==
  /\ shaped.state = "callback"
  /\ shaped' = [shaped EXCEPT !.state = "returned", !.value = PyNone]
  /\ UNCHANGED <<query, cursor>>
  /\ UNCHANGED <<handle_vars, caller_vars>>

\* with query_cursor() as cursor: QueryCursor.__call__ runs to its yield, or
\* the execute of Query.__call__ raises and no cursor is handed out
QueryCursorEnter ==
  /\ query.kind = "QueryCursor"
  /\ shaped.state = "new"
  /\ \E outcome \in {o \in Outcomes : o.shaper = "None"} :
       LET r == nonclosing_execute(outcome)
       IN  shaped' = [shaped EXCEPT
                        !.state = IF r.hands_cursor THEN "scope" ELSE "raised",
                        !.raised = r.raised,
                        !.executes = @ + 1]
  /\ UNCHANGED <<query, cursor>>
  /\ UNCHANGED <<handle_vars, caller_vars>>

\* the caller's with-block is left: it completed or its code raised; the
\* generator of QueryCursor.__call__ resumes after its yield
QueryCursorExit ==
  /\ query.kind = "QueryCursor"
  /\ shaped.state = "scope"
  /\ \E body \in {"None", "UserError"}, cursor_close \in DriverCloses :
       LET r == after_yield(cursor, body, cursor_close)
       IN  /\ cursor' = r.cursor
           /\ shaped' = [shaped EXCEPT
                            !.state = "left",
                            !.raised = r.raised,
                            !.body = body,
                            !.cursor_close = cursor_close,
                            !.warnings = @ + r.warnings]
  /\ UNCHANGED query
  /\ UNCHANGED <<handle_vars, caller_vars>>

\* Select._produce_return(cursor) is called and returns
SelectReturn ==
  /\ query.kind = "Select"
  /\ shaped.state = "new"
  /\ LET r == Select_produce_return(query, cursor)
     IN  /\ cursor' = r.cursor
         /\ shaped' = [shaped EXCEPT !.state = "returned",
                                     !.value = r.value,
                                     !.results = r.results,
                                     !.formatted = r.formatted,
                                     !.generator = r.generator]
  /\ UNCHANGED query
  /\ UNCHANGED <<handle_vars, caller_vars>>

\* the caller, who has the generator the call returned, asks it for its
\* next row; the formatter returns or raises
SelectNext ==
  /\ query.kind = "Select"
  /\ shaped.state = "returned"
  /\ shaped.value = PyGenerator
  /\ shaped.raised = "None"
  /\ shaped.generator.at # "end"
  /\ \E fails \in BOOLEAN :
       LET r == Select_next(query, cursor, shaped.generator, fails)
       IN  shaped' = [shaped EXCEPT !.generator = r.generator,
                                    !.formatted = @ \o r.formatted,
                                    !.yielded = @ \o r.yielded,
                                    !.dicts = @ \o r.dicts,
                                    !.raised = r.raised]
  /\ UNCHANGED <<query, cursor>>
  /\ UNCHANGED <<handle_vars, caller_vars>>

\* Query.__call__(*args, **kwds) on the handle of the tests: the parameters
\* are chosen once, before the loop, and every attempt passes them on
QueryCall ==
  /\ query.kind = "Query"
  /\ shaped.state = "new"
  /\ \E args \in ArgLists, kwds \in KwdMaps, c \in call(db) :
       /\ db' = c.db
       /\ shaped' = [shaped EXCEPT
                       !.state = IF c.raised = "None" THEN "returned"
                                 ELSE "raised",
                       !.raised = c.raised,
                       !.executes = Len(c.results),
                       !.called = Some(Passed(args, kwds))]
  /\ UNCHANGED <<query, cursor>>
  /\ UNCHANGED <<pending, last, txn, caller_vars>>

\* Query.show(*args, **kwds): db.show(self._sql, arg)
QueryShow ==
  /\ query.kind = "Query"
  /\ shaped.shown = None
  /\ \E args \in ArgLists, kwds \in KwdMaps :
       /\ db' = show(db).db
       /\ shaped' = [shaped EXCEPT !.shown = Some(Passed(args, kwds))]
  /\ UNCHANGED <<query, cursor>>
  /\ UNCHANGED <<pending, last, txn, caller_vars>>

ShaperNext ==
  \/ QueryCall
  \/ QueryShow
  \/ SelectReturn
  \/ SelectNext
  \/ QueryCursorEnter
  \/ QueryCursorExit
  \/ ManipulationReturn
  \/ SelectOneReturn
  \/ IteratorCall
  \/ IteratorNext
  \/ IteratorReturn

ShaperSpec == ShaperInit /\ [][ShaperNext]_vars

---------------------------------------------------------------------------
(* The specification of two callers.  Each runs "with db: <one statement>"
   once; a step is one statement of __enter__ or __exit__ run by one
   caller, so that the statements of the two interleave in every way. *)

CallersInit ==
  /\ db = NewDB("dummy", DummyRetry)
  /\ pending = "None"
  /\ last = NoStep(db)
  /\ txn = NoTxn
  /\ query = NoQuery
  /\ cursor = NewCursor(<<>>, 0)
  /\ shaped = NotShaped
  /\ \E retry \in 1..MaxRetry, layout \in Layouts :
       /\ handles = [i \in Callers |-> NewDB("postgres", retry)]
       /\ callers = [c \in Callers |-> NewCaller(layout[c])]
       /\ trace = [NoTrace EXCEPT !.budget = retry]

\* caller c goes from statement from to statement to, leaving the handle
\* it uses as h and having called the hooks calls on it
Step(c, from, to, h, hooks) ==
  /\ callers[c].pc = from
  /\ callers' = [callers EXCEPT ![c].pc = to]
  /\ handles' = [handles EXCEPT ![callers[c].handle] = h]
  /\ trace' = [trace EXCEPT
                 !.calls[callers[c].handle] =
                    @ \o [i \in DOMAIN hooks |-> <<c, hooks[i]>>]]
  /\ UNCHANGED <<handle_vars, shaper_vars>>

\* the handle caller c uses
Mine(c) == handles[callers[c].handle]

\* __enter__: "if self._transaction_level == 0"
EnterTest ==
  \E c \in Callers :
    Step(c, "enter",
         IF is_outermost_enter(Mine(c)) THEN "begin" ELSE "count",
         Mine(c), <<>>)

\* __enter__: "self._begin()"
EnterBegin ==
  \E c \in Callers :
    Step(c, "begin", "save", begin(Mine(c)).db, begin(Mine(c)).hooks)

\* __enter__: "self._orig_retry = self._retry"
EnterSave ==
  \E c \in Callers : Step(c, "save", "zero", enter_save(Mine(c)), <<>>)

\* __enter__: "self._retry = 0"
EnterZero ==
  \E c \in Callers : Step(c, "zero", "count", enter_zero(Mine(c)), <<>>)

\* __enter__: "self._transaction_level += 1"
EnterCount ==
  \E c \in Callers : Step(c, "count", "body", enter_count(Mine(c)), <<>>)

\* the block of the with-statement: the caller's statement runs on the
\* handle's connection, and the block ends or raises
Body ==
  \E c \in Callers, exc_value \in {"None", "UserError"} :
    /\ callers[c].pc = "body"
    /\ callers' = [callers EXCEPT ![c].pc = "decrement",
                                  ![c].exc_value = exc_value]
    /\ trace' = [trace EXCEPT !.work[callers[c].handle] = @ \cup {c}]
    /\ UNCHANGED <<handles, handle_vars, shaper_vars>>

\* __exit__: "self._transaction_level -= 1"
ExitDecrement ==
  \E c \in Callers :
    Step(c, "decrement", "test", exit_decrement(Mine(c)), <<>>)

\* __exit__: "if self._transaction_level < 0" with its reset and raise,
\* and "if self._transaction_level == 0"
ExitTest ==
  \E c \in Callers :
    IF Mine(c).transaction_level < 0
    THEN Step(c, "test", "done", unbalanced(Mine(c)).db, <<>>)
    ELSE Step(c, "test",
              IF Mine(c).transaction_level = 0 THEN "hook" ELSE "done",
              Mine(c), <<>>)

\* __exit__: "self._rollback()" or "self._commit()": the hook settles the
\* work done on the handle's connection, whoever did it
ExitHook ==
  \E c \in Callers :
    LET r == IF callers[c].exc_value # "None"
             THEN rollback(Mine(c), "None")
             ELSE commit(Mine(c), "None")
        i == callers[c].handle
    IN  /\ callers[c].pc = "hook"
        /\ callers' = [callers EXCEPT ![c].pc = "restore"]
        /\ handles' = [handles EXCEPT ![i] = r.db]
        /\ trace' = [trace EXCEPT
                       !.calls[i] = Append(@, <<c, r.hooks[1]>>),
                       !.work[i] = {},
                       !.settled = @ \cup
                          {[of |-> w, by |-> c, how |-> r.hooks[1]] :
                             w \in trace.work[i]}]
        /\ UNCHANGED <<handle_vars, shaper_vars>>

\* __exit__: "self._retry = self._orig_retry"
ExitRestore ==
  \E c \in Callers :
    Step(c, "restore", "clear", exit_restore(Mine(c)), <<>>)

\* __exit__: "self._orig_retry = None", and the return
ExitClear ==
  \E c \in Callers : Step(c, "clear", "done", exit_clear(Mine(c)), <<>>)

CallersNext ==
  \/ EnterTest
  \/ EnterBegin
  \/ EnterSave
  \/ EnterZero
  \/ EnterCount
  \/ Body
  \/ ExitDecrement
  \/ ExitTest
  \/ ExitHook
  \/ ExitRestore
  \/ ExitClear

CallersSpec == CallersInit /\ [][CallersNext]_vars

---------------------------------------------------------------------------
(* Properties of the transaction scope. *)

\* the scope observed by txn is d enters followed by exits, and no enter
\* came after an exit
Straight == txn.nested /\ txn.enters >= 1

\* the latest operation was the exit that closed the scope observed by txn
OutermostExitDone ==
  /\ last.op = "exit"
  /\ last.pre.transaction_level = 1

\* C1: d >= 1 enters followed by d exits that are given no signal call
\* _begin once, at the first enter, and _commit once, at the last exit, and
\* never _rollback: before the last exit the hooks called are <<begin>>,
\* after it <<begin, commit>>, whatever the depth.
C1_BalancedScopeCommitsOnce ==
  (Straight /\ txn.sigs \subseteq {"None"}) =>
    IF txn.exits < txn.enters
    THEN /\ txn.hooks = <<"begin">>
         /\ db.transaction_level = txn.enters - txn.exits
    ELSE /\ txn.hooks = <<"begin", "commit">>
         /\ db.transaction_level = 0

C1_Witness ==
  /\ Straight
  /\ txn.enters = MaxDepth
  /\ txn.exits = txn.enters
  /\ txn.sigs = {"None"}
  /\ OutermostExitDone

\* C2: d >= 1 enters, then an error that is not the abort marker handed to
\* each of the d exits: the hooks called are _begin once and, at the last
\* exit, _rollback once, never _commit; no exit suppresses the error, and
\* with the connection still present at the last exit and the driver's
\* rollback() returning (so that _rollback itself does not raise) the
\* caller receives that same error.
C2_ErrorRollsBackOnceAndPropagates ==
  \A e \in Errors :
    (Straight /\ txn.sigs = {e}) =>
      IF txn.exits < txn.enters
      THEN /\ txn.hooks = <<"begin">>
           /\ last.op = "exit" => (pending = e /\ last.raised = "None")
      ELSE /\ txn.hooks = <<"begin", "rollback">>
           /\ ( /\ OutermostExitDone
                /\ last.pre.connection # None
                /\ last.driver_hook = "None" ) =>
                (pending = e /\ last.raised = "None" /\ ~last.returns)

C2_Witness ==
  /\ Straight
  /\ txn.enters >= 2
  /\ txn.exits = txn.enters
  /\ txn.sigs = {"UserError"}
  /\ OutermostExitDone
  /\ last.pre.connection # None
  /\ last.driver_hook = "None"
  /\ pending = "UserError"

\* C3: d >= 1 enters, then abort_transaction(), whose marker is handed to
\* each of the d exits: _rollback is called once, by the last exit, and
\* _commit never; with the connection still present at the last exit and
\* the driver's rollback() returning, the marker is suppressed there and the
\* caller receives nothing.
C3_AbortRollsBackOnceAndIsSwallowed ==
  (Straight /\ txn.sigs = {Marker}) =>
    IF txn.exits < txn.enters
    THEN txn.hooks = <<"begin">>
    ELSE /\ txn.hooks = <<"begin", "rollback">>
         /\ ( /\ OutermostExitDone
              /\ last.pre.connection # None
              /\ last.driver_hook = "None" ) =>
              (pending = "None" /\ last.raised = "None" /\ last.returns)

C3_Witness ==
  /\ Straight
  /\ txn.enters >= 2
  /\ txn.exits = txn.enters
  /\ txn.sigs = {Marker}
  /\ OutermostExitDone
  /\ last.pre.connection # None
  /\ last.driver_hook = "None"
  /\ pending = "None"

---------------------------------------------------------------------------
(* Properties of the retry loop. *)

\* every attempt of the latest Query call raised an operational error
EveryAttemptOperational ==
  /\ last.op = "call"
  /\ \A i \in DOMAIN last.results :
       IsOperational(last.pre, last.results[i])

\* C4: outside a transaction scope, with a retry budget N > 1 and every
\* attempt raising an operational error, a Query call makes exactly N
\* attempts and then raises the operational error to the caller.
C4_AttemptsEqualBudget ==
  (/\ EveryAttemptOperational
   /\ last.pre.transaction_level = 0
   /\ last.pre.retry > 1) =>
    /\ Len(last.results) = last.pre.retry
    /\ last.raised = last.results[Len(last.results)]
    /\ pending = last.raised

C4_Witness ==
  /\ EveryAttemptOperational
  /\ last.pre.transaction_level = 0
  /\ last.pre.retry = MaxRetry
  /\ Len(last.results) = MaxRetry
  /\ pending = "OperationalError"

\* C5: with a retry budget N <= 1 (0 included) a Query call whose execute
\* raises an operational error makes one attempt and raises that error; it
\* does not call close() and opens no connection beyond the one execute
\* opens when the handle has none.
C5_NoRetryWithBudgetAtMostOne ==
  (/\ last.op = "call"
   /\ last.pre.retry <= 1
   /\ IsOperational(last.pre, last.results[1])) =>
    /\ Len(last.results) = 1
    /\ last.raised = last.results[1]
    /\ pending = last.raised
    /\ last.closes = 0
    /\ last.connects = (IF last.pre.connection = None THEN 1 ELSE 0)
    /\ db.connection # None

C5_Witness ==
  /\ last.op = "call"
  /\ last.pre.retry = 1
  /\ last.pre.transaction_level = 0
  /\ last.pre.connection # None
  /\ last.results = <<"OperationalError">>
  /\ pending = "OperationalError"

\* C6: while the transaction level is above 0 the retry budget is 0, and a
\* Query call made inside a scope whose execute raises an operational error
\* makes one attempt, does not call close() and raises the error into the
\* scope body.
C6_NoRetryInsideTransaction ==
  /\ db.transaction_level > 0 => db.retry = 0
  /\ (/\ last.op = "call"
      /\ last.pre.transaction_level > 0
      /\ IsOperational(last.pre, last.results[1])) =>
       /\ Len(last.results) = 1
       /\ last.closes = 0
       /\ last.raised = last.results[1]
       /\ pending = last.raised
       /\ last.pre.connection # None => db.connection = last.pre.connection

C6_Witness ==
  /\ last.op = "call"
  /\ last.pre.transaction_level > 0
  /\ txn.budget = MaxRetry
  /\ last.results = <<"OperationalError">>
  /\ pending = "OperationalError"
  /\ db.retry = 0

---------------------------------------------------------------------------
(* Properties of the retry budget and the level. *)

\* C7: after the exit that brings the level to 0 the retry budget is the
\* one the handle had before the outermost enter, and the saved budget is
\* cleared.
C7_BudgetRestoredAtOutermostExit ==
  OutermostExitDone =>
    /\ db.transaction_level = 0
    /\ db.retry = txn.budget
    /\ db.orig_retry = None

\* C8: between operations the saved retry budget is set exactly when the
\* transaction level is above 0.
C8_SavedBudgetIffInTransaction ==
  (db.orig_retry # None) <=> (db.transaction_level > 0)

\* C9: the transaction level is never negative between operations, also
\* after more exits than enters.
C9_LevelNeverNegative ==
  db.transaction_level >= 0

C9_Witness ==
  /\ last.op = "exit"
  /\ last.pre.transaction_level = 0
  /\ txn.exits = txn.enters
  /\ txn.enters >= 1
  /\ db.transaction_level = 0

\* C10: an exit at level 0 raises DBContextManagerError, calls no hook and
\* leaves the handle as it was (level 0, same retry budget, same
\* connection); a handle that supports transactions accepts an enter after
\* it, which starts a transaction with _begin.
C10_UnbalancedExitFails ==
  (last.op = "exit" /\ last.pre.transaction_level = 0) =>
    /\ last.raised = "DBContextManagerError"
    /\ pending = "DBContextManagerError"
    /\ last.hooks = <<>>
    /\ db = last.pre
    /\ db.transaction_level = 0
    /\ db.backend = "postgres" =>
         /\ enter(db).raised = "None"
         /\ enter(db).hooks = <<"begin">>
         /\ enter(db).db.transaction_level = 1

C10_Witness ==
  /\ last.op = "exit"
  /\ last.pre.transaction_level = 0
  /\ last.sig = "None"
  /\ last.raised = "DBContextManagerError"
  /\ db.retry = MaxRetry
  /\ db.backend = "postgres"

---------------------------------------------------------------------------
(* Properties of abort_transaction. *)

\* C11: abort_transaction() called at level 0 raises DBContextManagerError,
\* not the abort marker, calls no hook and leaves the handle (level, retry
\* budget, connection) as it was.
C11_AbortOutsideScopeFails ==
  (last.op = "abort_transaction" /\ last.pre.transaction_level = 0) =>
    /\ last.raised = "DBContextManagerError"
    /\ pending = "DBContextManagerError"
    /\ last.hooks = <<>>
    /\ db = last.pre

C11_Witness ==
  /\ last.op = "abort_transaction"
  /\ last.pre.transaction_level = 0
  /\ last.pre.connection # None
  /\ last.pre.retry = MaxRetry
  /\ pending = "DBContextManagerError"

---------------------------------------------------------------------------
(* Properties of the errors of the result shapers. *)

\* C12: a ManipulationCheckError never triggers a retry: on every handle
\* and with every retry budget, the attempt of a Query call in which
\* _produce_return raised it is the last attempt of the call; no close()
\* follows it (each close() of the loop follows an earlier attempt), and the
\* call raises the ManipulationCheckError to the caller.
C12_CheckErrorNeverRetried ==
  last.op = "call" =>
    \A i \in DOMAIN last.results :
      last.results[i] = "ManipulationCheckError" =>
        /\ i = Len(last.results)
        /\ last.closes = i - 1
        /\ last.raised = "ManipulationCheckError"
        /\ pending = "ManipulationCheckError"

\* C13: for every expected count e (None, or an integer, 0 included) and
\* every count a the cursor reports, Manipulation._produce_return returns a
\* when e is None or e = a, and otherwise raises ManipulationCheckError
\* whose message carries a and e; an expected count of 0 is checked.
C13_ManipulationReturnsOrFails ==
  (query.kind = "Manipulation" /\ shaped.state # "new") =>
    IF query.rowcount = None \/ Value(query.rowcount) = cursor.rowcount
    THEN /\ shaped.state = "returned"
         /\ shaped.raised = "None"
         /\ shaped.count = Some(cursor.rowcount)
    ELSE /\ shaped.state = "raised"
         /\ shaped.raised = "ManipulationCheckError"
         /\ shaped.carried = <<cursor.rowcount, Value(query.rowcount)>>
         /\ shaped.count = None

C13_Witness ==
  /\ query.kind = "Manipulation"
  /\ query.rowcount = Some(0)
  /\ cursor.rowcount = MaxCount
  /\ shaped.state = "raised"
  /\ shaped.carried = <<MaxCount, 0>>

---------------------------------------------------------------------------
(* Properties of the connection life cycle. *)

\* an execute that meets no error
Runs == [driver |-> "ok", shaper |-> "None"]

\* C14: close() never raises and leaves the handle without a connection:
\* with no connection, called twice, and when the driver's close raises;
\* the execute that follows a close opens a new connection and, the
\* statement running, succeeds.
C14_CloseNeverRaises ==
  last.op = "close" =>
    /\ last.raised = "None"
    /\ pending = "None"
    /\ db.connection = None
    /\ db.driver_open = {}
    /\ db.backend # "dummy" =>
         /\ execute(db, Runs).raised = "None"
         /\ execute(db, Runs).db.connection # None
         /\ execute(db, Runs).db.driver_open # {}

C14_Witness ==
  /\ last.op = "close"
  /\ last.pre.connection # None
  /\ last.driver_close = "Error"
  /\ db.backend = "sqlite"
  /\ db.connection = None
  /\ pending = "None"

\* C15: _connect called while a connection is present raises the
\* RuntimeError of a connection that still exists and leaves the handle as
\* it was: the same connection, none opened beside it.  No execute (Query
\* call), show, close, enter or exit raises that error, whatever came
\* before it, and the driver never holds a connection open for the handle
\* other than the one the handle has.
C15_DoubleConnectFails ==
  /\ (last.op = "connect" /\ last.pre.connection # None) =>
       /\ last.raised = ConnectionStateError
       /\ pending = ConnectionStateError
       /\ db = last.pre
  /\ last.op \in {"call", "show", "close", "enter", "exit"} =>
       /\ last.raised # ConnectionStateError
       /\ \A i \in DOMAIN last.results :
            last.results[i] # ConnectionStateError
  /\ db.driver_open =
       (IF db.connection = None THEN {} ELSE {Value(db.connection).id})

C15_Witness ==
  /\ last.op = "connect"
  /\ last.pre.connection # None
  /\ last.pre.transaction_level > 0
  /\ pending = ConnectionStateError
  /\ db.connection = last.pre.connection

\* C16: when the handle has no connection at the exit that closes the
\* outermost scope (it was closed inside the scope), that exit raises the
\* RuntimeError of a lost connection on every path: given no signal
\* (_commit), given an error (_rollback) and given the abort marker
\* (_rollback; the marker is not suppressed).  The hook connects nothing:
\* the handle is left without a connection and the driver has opened none.
C16_ExitWithoutConnectionFails ==
  (OutermostExitDone /\ last.pre.connection = None) =>
    /\ last.raised = ConnectionLostError
    /\ pending = ConnectionLostError
    /\ ~last.returns
    /\ last.hooks = (IF last.sig = "None" THEN <<"commit">>
                     ELSE <<"rollback">>)
    /\ db.connection = None
    /\ db.driver_open = last.pre.driver_open

C16_Witness ==
  /\ OutermostExitDone
  /\ last.pre.connection = None
  /\ last.sig = Marker
  /\ txn.hooks = <<"begin", "rollback">>
  /\ pending = ConnectionLostError

\* the latest operation was the enter of an outermost scope on a PostgresDB
\* that had no connection
EnteredWithoutConnection ==
  /\ last.op = "enter"
  /\ last.pre.transaction_level = 0
  /\ last.pre.connection = None
  /\ last.pre.backend = "postgres"

\* C17 as stated: entering the outermost scope (_begin) on a handle without
\* a connection raises the RuntimeError of a lost connection, as _commit and
\* _rollback do, and connects nothing.
C17_BeginWithoutConnectionFails ==
  EnteredWithoutConnection =>
    /\ last.raised = ConnectionLostError
    /\ db.connection = None

\* C17 amended: entering the outermost scope on a PostgresDB without a
\* connection does not fail: _begin connects first (DB.connected), the new
\* connection is taken out of autocommit mode and the scope is entered at
\* level 1; only _commit and _rollback raise on a missing connection.
C17_BeginConnects ==
  EnteredWithoutConnection =>
    /\ last.raised = "None"
    /\ pending = "None"
    /\ last.hooks = <<"begin">>
    /\ db.connection # None
    /\ ~Value(db.connection).autocommit
    /\ db.driver_open = {Value(db.connection).id}
    /\ db.transaction_level = 1
    /\ commit(last.pre, "None").raised = ConnectionLostError
    /\ rollback(last.pre, "None").raised = ConnectionLostError

C17_Witness ==
  /\ EnteredWithoutConnection
  /\ last.pre.retry = MaxRetry
  /\ db.connection # None
  /\ db.transaction_level = 1
  /\ pending = "None"

---------------------------------------------------------------------------
(* Properties of the shapers of SELECT results (ShaperSpec). *)

\* C18: SelectOne returns None when the result set has no row or more than
\* one; with exactly one row it returns what the formatter makes of the row
\* when a formatter is set, else the value of the row's column when the row
\* has one column, else the row.  It fetches once and takes at most 2 rows
\* from the cursor, whatever the size of the result set.
C18_SelectOneReturns ==
  (query.kind = "SelectOne" /\ shaped.state = "returned") =>
    /\ shaped.value =
         (IF Len(cursor.rows) # 1 THEN PyNone
          ELSE IF query.row_formatter # "None"
          THEN formatter_returns(query, cursor.rows[1])
          ELSE IF Len(cursor.rows[1]) = 1 THEN PyColumn(cursor.rows[1])
          ELSE PyRow(cursor.rows[1]))
    /\ Len(cursor.fetches) = 1
    /\ cursor.position <= 2
    /\ cursor.position = cursor.fetches[1]

C18_Witness ==
  /\ query.kind = "SelectOne"
  /\ shaped.state = "returned"
  /\ Len(cursor.rows) = MaxRows
  /\ cursor.position = 2
  /\ shaped.value = PyNone

\* C19: for a result set of n >= 0 rows and every chunk size given to
\* SelectIterator (None or a size below 1 counting as 1), the generator
\* handed to the callback yields the rows of the cursor in their order,
\* each once, as the formatter returns them when there is a formatter: what
\* it has yielded is always a prefix of the rows, and all n of them when it
\* has ended.  It ends at the first fetch that returns no row, no fetch
\* follows that one, and _produce_return returns None.
C19_IteratorYieldsAllRows ==
  query.kind = "SelectIterator" =>
    /\ Len(shaped.yielded) <= Len(cursor.rows)
    /\ \A i \in DOMAIN shaped.yielded :
         shaped.yielded[i] =
           (IF query.row_formatter # "None"
            THEN PyFormatted(cursor.rows[i])
            ELSE PyRow(cursor.rows[i]))
    /\ shaped.generator.at = "end" =>
         /\ Len(shaped.yielded) = Len(cursor.rows)
         /\ cursor.fetches[Len(cursor.fetches)] = 0
    /\ \A i \in DOMAIN cursor.fetches :
         /\ cursor.fetches[i] <= query.arraysize
         /\ cursor.fetches[i] = 0 =>
              (i = Len(cursor.fetches) /\ shaped.generator.at = "end")
    /\ shaped.state = "returned" => shaped.value = PyNone

C19_Witness ==
  /\ query.kind = "SelectIterator"
  /\ query.arraysize = 2
  /\ query.row_formatter # "None"
  /\ Len(cursor.rows) = MaxRows
  /\ shaped.generator.at = "end"
  /\ Len(shaped.yielded) = MaxRows
  /\ shaped.state = "returned"

---------------------------------------------------------------------------
(* Properties of the callback of a SelectIterator under the retry loop
   (Spec): each call of _produce_return, counted by last.shaped, is one
   invocation of the callback. *)

\* the latest operation was a Query call whose attempts returned or raised
\* an operational error, as the attempts of a SelectIterator call do
CalledWithOperationalErrors ==
  /\ last.op = "call"
  /\ \A i \in DOMAIN last.results :
       last.results[i] \in {"None", "OperationalError"}

\* C20: a call of a SelectIterator invokes the callback once, for every
\* retry budget and whichever of its attempts raise an operational error,
\* an error raised while the callback consumes rows included: the call
\* never invokes the callback a second time, and a call that returns has
\* invoked it exactly once.
C20_CallbackOncePerCall ==
  CalledWithOperationalErrors =>
    /\ last.shaped <= 1
    /\ last.raised = "None" => last.shaped = 1

---------------------------------------------------------------------------
(* Properties of QueryCursor (ShaperSpec). *)

\* C21: once the execute of a QueryCursor has handed out a cursor, the
\* cursor is closed exactly once when the caller's block is left, whether
\* the block completed or the caller's code raised; the caller's exception
\* propagates after the close and the statement is not executed again; a
\* close that raises is logged and not raised.  When the execute fails no
\* cursor is handed out and nothing is closed.
C21_CursorClosedOnce ==
  query.kind = "QueryCursor" =>
    /\ shaped.state \in {"new", "scope"} => cursor.closes = 0
    /\ shaped.state = "left" =>
         /\ cursor.closes = 1
         /\ shaped.raised = shaped.body
         /\ shaped.executes = 1
         /\ shaped.warnings =
              (IF shaped.cursor_close # "None" THEN 1 ELSE 0)
    /\ shaped.state = "raised" =>
         /\ shaped.raised \in {"OperationalError", "Error"}
         /\ cursor.closes = 0
         /\ shaped.warnings = 0

C21_Witness ==
  /\ query.kind = "QueryCursor"
  /\ shaped.state = "left"
  /\ shaped.body = "UserError"
  /\ shaped.cursor_close = "Error"
  /\ shaped.raised = "UserError"
  /\ cursor.closes = 1
  /\ shaped.warnings = 1

---------------------------------------------------------------------------
(* Properties of Select and of the call's parameters. *)

\* C22: Select without a formatter returns the list of all the cursor's
\* rows as fetchall gave it.  Select with a formatter has fetched all rows
\* when the call returns and has not called the formatter: the formatter is
\* called once per row, in row order, as the returned generator is
\* consumed, and what it returns is yielded; a finished generator yields
\* nothing more; a formatter that raises does so in the consumer, after the
\* call has returned.
C22_SelectFormatsLazily ==
  (query.kind = "Select" /\ shaped.state = "returned") =>
    /\ shaped.results = cursor.rows
    /\ cursor.position = Len(cursor.rows)
    /\ Len(cursor.fetches) = 1
    /\ query.row_formatter = "None" =>
         /\ shaped.value = PyList
         /\ shaped.formatted = <<>>
         /\ shaped.yielded = <<>>
    /\ query.row_formatter # "None" =>
         /\ shaped.value = PyGenerator
         /\ Len(shaped.formatted) =
              Len(shaped.yielded) + (IF shaped.raised # "None" THEN 1 ELSE 0)
         /\ shaped.formatted = SubSeq(cursor.rows, 1, Len(shaped.formatted))
         /\ \A i \in DOMAIN shaped.yielded :
              shaped.yielded[i] = PyFormatted(cursor.rows[i])
         /\ (shaped.generator.at = "end" /\ shaped.raised = "None") =>
              Len(shaped.yielded) = Len(cursor.rows)
         /\ shaped.generator.at = "end" =>
              \A fails \in BOOLEAN :
                LET r == Select_next(query, cursor, shaped.generator, fails)
                IN  r.yielded = <<>> /\ r.formatted = <<>>

C22_Witness ==
  /\ query.kind = "Select"
  /\ query.row_formatter # "None"
  /\ shaped.state = "returned"
  /\ Len(cursor.rows) = MaxRows
  /\ Len(shaped.yielded) = MaxRows - 1
  /\ shaped.raised = MissingMetadataError

\* C23: the parameters a call passes to the backend are the positional
\* arguments when there is one, and the named arguments otherwise, which
\* are the empty dict when there is no argument at all; named arguments
\* given with positional ones are dropped; show given the same arguments
\* passes the same parameters.
ParamsAsSpecified(p) ==
  /\ Len(p.args.of) > 0 => (p.params = p.args /\ p.params.names = <<>>)
  /\ Len(p.args.of) = 0 => p.params = p.kwds
  /\ (Len(p.args.of) = 0 /\ Len(p.kwds.names) = 0) =>
       p.params = PyDict(<<>>, <<>>)

C23_ParamsPositionalElseNamed ==
  /\ shaped.called # None => ParamsAsSpecified(Value(shaped.called))
  /\ shaped.shown # None => ParamsAsSpecified(Value(shaped.shown))
  /\ ( /\ shaped.called # None
       /\ shaped.shown # None
       /\ Value(shaped.called).args = Value(shaped.shown).args
       /\ Value(shaped.called).kwds = Value(shaped.shown).kwds )
     => Value(shaped.called).params = Value(shaped.shown).params

C23_Witness ==
  /\ shaped.called # None
  /\ shaped.shown # None
  /\ Value(shaped.called).args = Value(shaped.shown).args
  /\ Value(shaped.called).kwds = Value(shaped.shown).kwds
  /\ Len(Value(shaped.called).args.of) = 2
  /\ Len(Value(shaped.called).kwds.names) = 2
  /\ shaped.state = "returned"

---------------------------------------------------------------------------
(* Properties of to_dict_formatter. *)

\* the rows to_dict_formatter was called with have been formatted with
\* the cursor's description
Dicted ==
  /\ query.kind = "Select"
  /\ query.row_formatter = "to_dict_formatter"
  /\ shaped.dicts # <<>>

\* an empty row comes back unchanged, with or without metadata, and a row
\* that is not empty fails without a cursor or without metadata
EmptyRowOrMetadata(i) ==
  LET row == shaped.formatted[i]
      r == shaped.dicts[i]
  IN  /\ row = <<>> =>
           /\ r = Formatted("row", <<>>, {})
           /\ to_dict_formatter(row, None) = r
      /\ row # <<>> =>
           to_dict_formatter(row, None).raised = MissingMetadataError
      /\ (row # <<>> /\ cursor.description = None) =>
           r.raised = MissingMetadataError
      /\ (row # <<>> /\ cursor.description # None) =>
           (r.raised = "None" /\ r.kind = "dict")

\* C24 as stated: ... and with metadata the dict pairs the i-th column
\* name with the i-th value of the row, for every position i.
C24_DictPairsEveryPosition ==
  Dicted =>
    \A i \in DOMAIN shaped.dicts :
      /\ EmptyRowOrMetadata(i)
      /\ (shaped.formatted[i] # <<>> /\ cursor.description # None) =>
           \A j \in DOMAIN shaped.formatted[i] :
             <<Value(cursor.description)[j], shaped.formatted[i][j]>>
               \in shaped.dicts[i].pairs

\* C24, amended: to_dict_formatter returns an empty row unchanged even
\* without metadata, fails with MissingMetadataError for a row that is not
\* empty when the cursor or its description is None, and otherwise returns
\* a dict whose keys are the column names, each with the value of the last
\* position that has this name: the i-th name is paired with the i-th
\* value at every position whose name no later column repeats.
C24_DictPairsLastPosition ==
  Dicted =>
    \A i \in DOMAIN shaped.dicts :
      /\ EmptyRowOrMetadata(i)
      /\ (shaped.formatted[i] # <<>> /\ cursor.description # None) =>
           LET row == shaped.formatted[i]
               names == Value(cursor.description)
               pairs == shaped.dicts[i].pairs
           IN  /\ {p[1] : p \in pairs} = {names[j] : j \in DOMAIN names}
               /\ \A p \in pairs, o \in pairs : p[1] = o[1] => p = o
               /\ \A j \in DOMAIN row :
                    (\A k \in DOMAIN names : names[k] = names[j] => k <= j)
                      => <<names[j], row[j]>> \in pairs

\* a row of two different values under two different column names
C24_Witness ==
  /\ Dicted
  /\ cursor.description # None
  /\ \E i \in DOMAIN shaped.dicts :
       /\ Len(shaped.formatted[i]) = 2
       /\ shaped.formatted[i][1] # shaped.formatted[i][2]
       /\ Value(cursor.description)[1] # Value(cursor.description)[2]
       /\ Cardinality(shaped.dicts[i].pairs) = 2

\* C25: every key of the dict to_dict_formatter returns is the lower-cased
\* name of a column of the cursor's description, and every column's
\* lower-cased name is a key.
C25_KeysLowerCased ==
  (Dicted /\ cursor.description # None) =>
    \A i \in DOMAIN shaped.dicts :
      shaped.dicts[i].kind = "dict" =>
        {p[1] : p \in shaped.dicts[i].pairs} =
          {Lower(Value(cursor.description)[j]) :
             j \in DOMAIN Value(cursor.description)}

---------------------------------------------------------------------------
(* Properties of the retry loop. *)

\* the last step was a Query call made outside a transaction
CalledOutsideTransaction ==
  /\ last.op = "call"
  /\ last.pre.transaction_level = 0

\* C26: for every retry budget N and every pattern of attempt outcomes, a
\* Query call outside a transaction ends: it makes at least one and at most
\* max(1, N) attempts, the first attempt that succeeds is the last one and
\* the call returns, and otherwise the call raises the error of its last
\* attempt.
C26_CallEndsWithinBudget ==
  CalledOutsideTransaction =>
    LET k == Len(last.results)
        N == last.pre.retry
    IN  /\ k >= 1
        /\ k <= (IF N > 1 THEN N ELSE 1)
        /\ \A i \in 1..(k - 1) : last.results[i] # "None"
        /\ last.raised = last.results[k]
        /\ pending = last.raised

C26_Witness ==
  /\ CalledOutsideTransaction
  /\ last.pre.retry = MaxRetry
  /\ Len(last.results) = MaxRetry
  /\ last.raised = "None"

\* C27: a call that makes k attempts calls close() k - 1 times, once
\* between a failed attempt and the retry after it and never after the last
\* attempt; on a handle that keeps a connection every retry attempt starts
\* disconnected and opens a new connection, so that one connection was
\* opened for each attempt but a first attempt that found the handle
\* connected; the call leaves the connection of its last attempt and no
\* other connection open.
C27_CloseBetweenAttempts ==
  last.op = "call" =>
    LET k == Len(last.results)
    IN  /\ last.closes = k - 1
        /\ last.pre.backend = "postgres" =>
             /\ last.connects =
                  (k - 1) + (IF last.pre.connection = None THEN 1 ELSE 0)
             /\ db.connection # None
             /\ Cardinality(db.driver_open) =
                  Cardinality(last.pre.driver_open)
                    + (IF last.pre.connection = None THEN 1 ELSE 0)

C27_Witness ==
  /\ last.op = "call"
  /\ last.pre.backend = "postgres"
  /\ last.pre.connection # None
  /\ Len(last.results) = MaxRetry
  /\ last.closes = MaxRetry - 1
  /\ last.connects = MaxRetry - 1

\* C28: an error of execute or of the result shaper that is not an
\* operational error ends the call at the attempt that raised it, with
\* every retry budget: the call raises it unchanged, no close() follows it,
\* and when the first attempt raised it there was one attempt, no close()
\* and no connection opened but the one of the first execute.
C28_OtherErrorsNotRetried ==
  last.op = "call" =>
    \A i \in DOMAIN last.results :
      last.results[i] \notin {"None", "OperationalError"} =>
        /\ i = Len(last.results)
        /\ last.closes = i - 1
        /\ last.raised = last.results[i]
        /\ pending = last.results[i]
        /\ i = 1 =>
             last.connects <= (IF last.pre.connection = None THEN 1 ELSE 0)

---------------------------------------------------------------------------
(* Properties of the connection of a transaction. *)

\* C29: a transaction is never resumed on a new connection: a Query call
\* made on a PostgresDB while transaction_level > 0 opens no connection;
\* when the handle has a connection, it is in the transaction _begin
\* started (autocommit off) and the statement runs on it, and when the
\* connection was closed inside the scope the call fails.
C29_ScopeKeepsItsConnection ==
  ( /\ last.op = "call"
    /\ last.pre.backend = "postgres"
    /\ last.pre.transaction_level > 0 )
  => /\ last.connects = 0
     /\ last.pre.connection = None => last.raised # "None"
     /\ last.pre.connection # None =>
          /\ ~Value(last.pre.connection).autocommit
          /\ db.connection = last.pre.connection

---------------------------------------------------------------------------
(* Properties of the nested scopes. *)

\* C30: __enter__ while transaction_level > 0 adds one to the level and
\* does nothing else: it calls no hook (no _begin), raises nothing, and
\* leaves the retry budget, which is 0, the saved budget and the connection
\* as they were.
C30_NestedEnterOnlyCounts ==
  (last.op = "enter" /\ last.pre.transaction_level > 0) =>
    /\ db = [last.pre EXCEPT !.transaction_level = @ + 1]
    /\ last.hooks = <<>>
    /\ last.raised = "None"
    /\ pending = "None"
    /\ db.retry = 0
    /\ db.orig_retry = last.pre.orig_retry

C30_Witness ==
  /\ last.op = "enter"
  /\ last.pre.transaction_level = MaxDepth - 1
  /\ db.transaction_level = MaxDepth
  /\ db.orig_retry = Some(MaxRetry)
  /\ db.connection # None

---------------------------------------------------------------------------
(* Properties of the nested exits and of the calls that follow a call. *)

\* C31: an __exit__ that leaves transaction_level > 0 only takes one from
\* the level: it calls no hook, raises nothing, leaves the retry budget,
\* the saved budget and the connection as they were, and the signal it was
\* given, the abort marker included, goes on to the caller; given no
\* signal it leaves none.  An __exit__ that suppresses a signal is one that
\* brought the level to 0 and was given the abort marker.
C31_NestedExitOnlyCounts ==
  /\ (last.op = "exit" /\ last.pre.transaction_level > 1) =>
       /\ db = [last.pre EXCEPT !.transaction_level = @ - 1]
       /\ last.hooks = <<>>
       /\ last.raised = "None"
       /\ pending = last.sig
       /\ last.returns <=> last.sig = "None"
  /\ (last.op = "exit" /\ last.sig # "None" /\ pending = "None") =>
       /\ last.pre.transaction_level = 1
       /\ last.sig = Marker

C31_Witness ==
  /\ last.op = "exit"
  /\ last.pre.transaction_level = MaxDepth
  /\ last.sig = Marker
  /\ pending = Marker
  /\ last.pre.orig_retry = Some(MaxRetry)

\* C32: a call made after a call that failed has all its attempts: it
\* makes at most max(1, N) attempts for the budget N the handle has then,
\* exactly that many when every attempt raises an operational error, and
\* it leaves the budget as it is; in every state the calls the handle
\* offers include one of max(1, N) attempts.
C32_AttemptsCountedPerCall ==
  LET most(h) == IF h.retry > 1 THEN h.retry ELSE 1
  IN  /\ (last.op = "call" /\ last.earlier) =>
           /\ Len(last.results) <= most(last.pre)
           /\ EveryAttemptOperational => Len(last.results) = most(last.pre)
           /\ db.retry = last.pre.retry
           /\ db.orig_retry = last.pre.orig_retry
      /\ last.earlier =>
           \E c \in call(db) : Len(c.results) = most(db)

C32_Witness ==
  /\ last.op = "call"
  /\ last.earlier
  /\ last.pre.retry = MaxRetry
  /\ Len(last.results) = MaxRetry
  /\ EveryAttemptOperational

---------------------------------------------------------------------------
(* Properties of the connection's lifecycle. *)

\* C33: a handle is constructed without a connection; the execute of a
\* call opens a connection when the handle has none and only then, and
\* otherwise runs on the connection the handle has (a call of k attempts
\* opens one for each attempt after a close() and one for a first attempt
\* without connection); the driver never holds more than one connection
\* open for the handle, and a connection it holds open is the handle's:
\* close() was called on every other connection ever opened.
C33_ConnectionLifecycle ==
  /\ last.op = "init" => (db.connection = None /\ db.driver_open = {})
  /\ (last.op = "call" /\ last.pre.backend # "dummy") =>
       LET k == Len(last.results)
           absent == last.pre.connection = None
       IN  /\ last.connects = (k - 1) + (IF absent THEN 1 ELSE 0)
           /\ (k = 1 /\ ~absent) => db.connection = last.pre.connection
           /\ db.connection # None
  /\ last.op = "show" =>
       (db.connection # last.pre.connection =>
          last.pre.connection = None)
  /\ Cardinality(db.driver_open) <= 1
  /\ \A id \in db.driver_open :
       db.connection # None /\ Value(db.connection).id = id

C33_Witness ==
  /\ last.op = "call"
  /\ last.pre.backend = "postgres"
  /\ last.pre.connection = None
  /\ last.earlier
  /\ Len(last.results) = 2
  /\ last.connects = 2
  /\ last.closes = 1
  /\ db.driver_open = {1}

---------------------------------------------------------------------------
(* Properties of the failures of the hooks. *)

\* C34: when _begin raises in an __enter__ at level 0 (a backend without
\* transactions), __enter__ raises that error and leaves the handle as it
\* was: level 0, the retry budget unchanged, no saved budget.  No exit is
\* owed (an __exit__ now is the unbalanced one) and a Query call has the
\* whole budget: among its endings is one of max(1, N) attempts.
C34_FailedBeginLeavesIdle ==
  (last.op = "enter" /\ last.pre.transaction_level = 0
     /\ last.raised # "None") =>
    /\ last.hooks = <<"begin">>
    /\ pending = last.raised
    /\ db = last.pre
    /\ db.transaction_level = 0
    /\ db.orig_retry = None
    /\ exit(db, "None", "None").raised = "DBContextManagerError"
    /\ \E c \in call(db) :
         Len(c.results) = (IF last.pre.retry > 1 THEN last.pre.retry ELSE 1)

C34_Witness ==
  /\ last.op = "enter"
  /\ last.pre.transaction_level = 0
  /\ last.raised = "NotImplementedError"
  /\ pending = "NotImplementedError"
  /\ db.retry = DummyRetry
  /\ last.earlier

\* C35: after the __exit__ that closes the outermost scope the level is 0,
\* whether _commit or _rollback returned or raised: an __enter__ that
\* follows calls _begin again and, where the backend has transactions,
\* starts a scope at level 1, and an __exit__ that follows without an
\* __enter__ raises DBContextManagerError and leaves the level at 0.
C35_OutermostExitReturnsToIdle ==
  OutermostExitDone =>
    /\ db.transaction_level = 0
    /\ enter(db).hooks = <<"begin">>
    /\ db.backend = "postgres" =>
         /\ enter(db).raised = "None"
         /\ enter(db).db.transaction_level = 1
         /\ ~Value(enter(db).db.connection).autocommit
    /\ \A e \in Exceptions \cup {"None"}, d \in DriverHooks :
         /\ exit(db, e, d).raised = "DBContextManagerError"
         /\ exit(db, e, d).db.transaction_level = 0
         /\ exit(db, e, d).hooks = <<>>

C35_Witness ==
  /\ OutermostExitDone
  /\ last.driver_hook = "Error"
  /\ last.hooks = <<"commit">>
  /\ last.raised = "Error"
  /\ pending = "Error"
  /\ db.transaction_level = 0

\* C36: on a PostgresDB, between operations, a connection the handle has
\* is in autocommit mode when transaction_level is 0 and has autocommit off
\* when transaction_level > 0, also after an outermost __exit__ whose
\* _commit or _rollback raised.
C36_AutocommitOutsideScopes ==
  (db.backend = "postgres" /\ db.connection # None) =>
    (Value(db.connection).autocommit <=> db.transaction_level = 0)

---------------------------------------------------------------------------
(* Properties of the decision between commit and rollback. *)

\* C37: the __exit__ that brings the level to 0 calls _commit when it is
\* given no signal and _rollback when it is given one, whatever the nested
\* exits of the scope were given before: a signal handed to nested exits
\* and caught by the caller before the outermost exit leaves no trace, the
\* outermost exit commits, on the connection of the transaction.
C37_OutermostSignalDecides ==
  OutermostExitDone =>
    /\ last.hooks = (IF last.sig = "None" THEN <<"commit">>
                     ELSE <<"rollback">>)
    /\ (last.raised = "None" /\ last.pre.connection # None) =>
         /\ Value(db.connection).id = Value(last.pre.connection).id
         /\ db.driver_open = last.pre.driver_open

C37_Witness ==
  /\ OutermostExitDone
  /\ Straight
  /\ txn.enters = MaxDepth
  /\ txn.exits = MaxDepth
  /\ txn.sigs = {Marker, "None"}
  /\ last.sig = "None"
  /\ last.hooks = <<"commit">>
  /\ last.raised = "None"
  /\ txn.hooks = <<"begin", "commit">>

---------------------------------------------------------------------------
(* Properties of the value SelectOne returns. *)

\* SelectOne._produce_return has returned
SelectOneReturned ==
  /\ query.kind = "SelectOne"
  /\ shaped.state = "returned"

\* the result set is one row for which SelectOne returns None: a single
\* column that is NULL and no formatter, or a formatter that returns None
OneRowGivesNone ==
  /\ Len(cursor.rows) = 1
  /\ \/ query.row_formatter = "returns_none"
     \/ /\ query.row_formatter = "None"
        /\ cursor.rows[1] = <<Null>>

\* C38 as stated: SelectOne returns None if and only if the result set
\* does not have exactly one row.
C38_NoneIffNotOneRow ==
  SelectOneReturned =>
    (shaped.value = PyNone <=> Len(cursor.rows) # 1)

\* C38, amended: SelectOne returns None when the result set does not have
\* exactly one row, and also for one row whose single column is NULL
\* (without formatter) or for which the formatter returns None; for every
\* other one-row result it returns a value that is not None.
C38_NoneAlsoForNullColumn ==
  SelectOneReturned =>
    (shaped.value = PyNone <=> (Len(cursor.rows) # 1 \/ OneRowGivesNone))

C38_Witness ==
  /\ SelectOneReturned
  /\ cursor.rows = << <<Null>> >>
  /\ query.row_formatter = "None"
  /\ shaped.value = PyNone
  /\ cursor.position = 1

---------------------------------------------------------------------------
(* Properties of two callers (CallersSpec). *)

\* the hooks called on handle i, without the callers
HooksOn(i) == [k \in DOMAIN trace.calls[i] |-> trace.calls[i][k][2]]

\* both callers have left their with-statement
BothDone == \A c \in Callers : callers[c].pc = "done"

\* C39: two callers with a handle each do not touch each other: the hooks
\* of a handle are called by its caller only, _begin once and then _commit
\* or _rollback once; the level of a handle is 1 between its caller's
\* increment and decrement and 0 otherwise; the work of a caller is
\* settled by its own exit; and when a caller has left its scope its
\* handle has level 0, the budget it was constructed with and no saved
\* budget, and keeps its own connection.
C39_SeparateHandlesIsolated ==
  (callers[1].handle # callers[2].handle) =>
    /\ \A s \in trace.settled : s.of = s.by
    /\ \A c \in Callers :
         LET i == callers[c].handle
             h == handles[i]
         IN  /\ \A k \in DOMAIN trace.calls[i] : trace.calls[i][k][1] = c
             /\ HooksOn(i) \in {<<>>, <<"begin">>, <<"begin", "commit">>,
                                <<"begin", "rollback">>}
             /\ h.transaction_level =
                  (IF callers[c].pc \in {"body", "decrement"} THEN 1 ELSE 0)
             /\ callers[c].pc \in {"count", "body", "decrement", "test",
                                   "hook", "restore"}
                  => (h.retry = 0 /\ h.orig_retry = Some(trace.budget))
             /\ callers[c].pc = "done" =>
                  /\ h.retry = trace.budget
                  /\ h.orig_retry = None
                  /\ Len(HooksOn(i)) = 2
                  /\ h.connection # None
                  /\ Value(h.connection).autocommit

\* two callers on one handle, their statements interleaved: _begin called
\* twice before any _commit or _rollback, the saved budget overwritten with
\* 0 so that the handle ends with the budget 0 in place of the one it was
\* constructed with, and the work of one caller settled by the exit of the
\* other
C39_Witness ==
  /\ callers[1].handle = callers[2].handle
  /\ BothDone
  /\ Len(HooksOn(1)) >= 2
  /\ HooksOn(1)[1] = "begin"
  /\ HooksOn(1)[2] = "begin"
  /\ trace.budget = MaxRetry
  /\ handles[1].retry = 0
  /\ handles[1].transaction_level = 0
  /\ \E s \in trace.settled : s.of # s.by

============================================================================
